---- MODULE Spec2Model ----
\* Model of the Codeforces streak reminder bot (src/main.py): the record
\* store and its persistence, the dedup helpers, the command handlers and
\* the reminder sweep with its suspension points.
EXTENDS Integers, Sequences, FiniteSets, TLC

\* ------------------------------------------------------------------
\* Bounds of the model
\* ------------------------------------------------------------------
\* Number of commands that change the store and of restarts in one
\* behaviour of LiveSpec, where sweeps and the clock go on for ever.
MaxLiveEvents == 2
\* Number of events in one behaviour: commands that change the store,
\* sweeps started, advances of the clock (12 hours each) and restarts of
\* the process.
MaxEvents == 4
\* Number of such events in one behaviour of CmdSpec, where the commands
\* handled are written to the history.
MaxCmdEvents == 2
\* Number of such events in one behaviour of FailSpec, where save_db can
\* fail.
MaxFailEvents == 3
\* Longest "result" list of a feed response.
MaxSubs == 2

\* ------------------------------------------------------------------
\* Configuration and value domains
\* ------------------------------------------------------------------
DEFAULT_TZ == "Asia/Tashkent"

REMINDER_TIMES == <<"08:00", "12:00", "22:00">>

Slots == {REMINDER_TIMES[i] : i \in 1..Len(REMINDER_TIMES)}

\* The zones pytz knows, cut down to two whose offsets put the calendar
\* date of one instant on different days for nine hours of every day.
all_timezones == {"Asia/Tashkent", "Pacific/Kiritimati"}

\* A name that is not an IANA zone.
BadTzName == "Mars/Phobos"

\* Telegram user ids, as the strings used for the keys of DB.
Users == {"1", "2"}

Handles == {"tourist"}

\* UserRecord.handle = None
NoHandle == "<None>"

\* Absent key of a last_notified dict.
NoDate == <<>>

\* ------------------------------------------------------------------
\* Time: instants are hours since an epoch, in UTC
\* ------------------------------------------------------------------
\* tz_get(name).utcoffset, in hours (neither zone has DST).
UtcOffset(tz) ==
    CASE tz = "Asia/Tashkent" -> 5
      [] tz = "Pacific/Kiritimati" -> 14

\* datetime.now(tz).date() / dt_utc.astimezone(tz).date(): the day number
\* of instant t on the calendar of zone tz.
LocalDate(t, tz) == (t + UtcOffset(tz)) \div 24

\* date.isoformat(): day number 0 is 2025-12-30, so the days of the model
\* cross a month and a year boundary.
isoformat(d) ==
    IF d <= 1 THEN <<2025, 12, 30 + d>> ELSE <<2026, 1, d - 1>>

\* "if user_tz_name not in all_timezones: user_tz_name = DEFAULT_TZ"
resolve_tz(user_tz_name) ==
    IF user_tz_name \in all_timezones THEN user_tz_name ELSE DEFAULT_TZ

\* ------------------------------------------------------------------
\* Records and the record store (an insertion-ordered dict)
\* ------------------------------------------------------------------
EmptyDict == [s \in Slots |-> NoDate]

\* UserRecord(): handle None, timezone DEFAULT_TZ, last_notified None.
\* last_notified is [none |-> TRUE] for None, else a dict d.
UserRecord ==
    [handle |-> NoHandle, timezone |-> DEFAULT_TZ,
     last_notified |-> [none |-> TRUE, d |-> EmptyDict]]

\* A dict is a sequence of entries [uid, rec] in insertion order.
Keys(db) == {db[i].uid : i \in 1..Len(db)}

IndexOf(db, uid) == CHOOSE i \in 1..Len(db) : db[i].uid = uid

\* DB.get(uid) for a key that is present.
Get(db, uid) == db[IndexOf(db, uid)].rec

\* DB.setdefault(uid, UserRecord()): the dict afterwards.
setdefault(db, uid) ==
    IF uid \in Keys(db) THEN db
    ELSE Append(db, [uid |-> uid, rec |-> UserRecord])

\* Assignment to a field of the record object stored under uid.
Put(db, uid, rec) ==
    [db EXCEPT ![IndexOf(db, uid)] = [uid |-> uid, rec |-> rec]]

\* UserRecord.to_dict: asdict, with last_notified None written as {}.
to_dict(rec) ==
    [handle |-> rec.handle, timezone |-> rec.timezone,
     last_notified |-> IF rec.last_notified.none THEN EmptyDict
                       ELSE rec.last_notified.d]

\* Mutant of save_db: the record inserted last is not written.
save_db_stale(db) ==
    [exists |-> TRUE,
     raw |-> [i \in 1..(Len(db) - 1) |-> [uid |-> db[i].uid, obj |-> to_dict(db[i].rec)]]]

\* save_db: the whole dict rewritten as one JSON object.
save_db(db) ==
    [exists |-> TRUE,
     raw |-> [i \in 1..Len(db) |-> [uid |-> db[i].uid, obj |-> to_dict(db[i].rec)]]]

\* load_db: {} when the file does not exist, else one UserRecord per key.
load_db(f) ==
    IF ~f.exists THEN <<>>
    ELSE [i \in 1..Len(f.raw) |->
            [uid |-> f.raw[i].uid,
             rec |-> [handle |-> f.raw[i].obj.handle,
                      timezone |-> f.raw[i].obj.timezone,
                      last_notified |->
                          [none |-> FALSE, d |-> f.raw[i].obj.last_notified]]]]

NoFile == [exists |-> FALSE, raw |-> <<>>]

\* ------------------------------------------------------------------
\* Dedup helpers
\* ------------------------------------------------------------------
\* Mutant of mark_notified: the date is written to every slot.
mark_notified_every_slot(db, user_id, slot, today) ==
    LET db1 == setdefault(db, user_id)
        rec == Get(db1, user_id)
    IN  Put(db1, user_id,
            [rec EXCEPT !.last_notified =
                [none |-> FALSE, d |-> [s \in Slots |-> isoformat(today)]]])

\* mark_notified: the dict after the call; today is date.today(), the date
\* on the clock of the machine the process runs on.
mark_notified(db, user_id, slot, today) ==
    LET db1 == setdefault(db, user_id)
        rec == Get(db1, user_id)
        ln  == IF rec.last_notified.none THEN EmptyDict ELSE rec.last_notified.d
    IN  Put(db1, user_id,
            [rec EXCEPT !.last_notified =
                [none |-> FALSE, d |-> [ln EXCEPT ![slot] = isoformat(today)]]])

\* already_notified_today at instant t.
already_notified_today(db, user_id, slot, user_tz_name, t) ==
    IF user_id \notin Keys(db) THEN FALSE
    ELSE LET rec == Get(db, user_id) IN
         IF rec.last_notified.none THEN FALSE
         ELSE rec.last_notified.d[slot]
                = isoformat(LocalDate(t, resolve_tz(user_tz_name)))

\* ------------------------------------------------------------------
\* The submission feed
\* ------------------------------------------------------------------
\* creationTimeSeconds of a submission: an instant, NoTs when the field is
\* missing (JSON null or no key), BadTs when it is not a number.
NoTs == -1
BadTs == -2

\* An element of "result": a JSON object with a verdict and a time, or
\* some other JSON value (shape "other").
Sub(shape, v, ts) == [shape |-> shape, verdict |-> v, creationTimeSeconds |-> ts]

Verdicts == {"OK", "WRONG_ANSWER"}

\* Submission instants a response given at instant t can carry.
SubTimes(t) == {x \in {t, t - 12, t - 24} : x >= 0}

SubsAt(t) ==
    {Sub("object", v, ts) : v \in Verdicts, ts \in SubTimes(t) \cup {NoTs, BadTs}}
      \cup {Sub("other", "", NoTs)}

ResultsAt(t) ==
    UNION {[1..n -> SubsAt(t)] : n \in 0..MaxSubs}

\* What the await of lines 83-85 gives: kind "error" when it raises
\* (network failure, timeout, a body that is not JSON), "nonobject" for a
\* JSON value that is no object, "object" for a JSON object with a status
\* and a result; result_is_list is FALSE when "result" is present and is
\* no list.
Resp(kind, status, isList, result) ==
    [kind |-> kind, status |-> status, result_is_list |-> isList, result |-> result]

ResponsesAt(t) ==
    {Resp("error", "", TRUE, <<>>), Resp("nonobject", "", TRUE, <<>>)}
      \cup {Resp("object", st, TRUE, r) : st \in {"OK", "FAILED"}, r \in ResultsAt(t)}
      \cup {Resp("object", st, FALSE, <<>>) : st \in {"OK", "FAILED"}}

\* Outcomes of a call: a returned bool, or an exception.
Raised == "raised"
True == "True"
False == "False"

\* Mutant of scan_result: the submission's date is taken in UTC, without
\* astimezone(user_tz).
RECURSIVE scan_result_utc(_, _, _, _)
scan_result_utc(result, i, user_tz, today_local) ==
    IF i > Len(result) THEN False
    ELSE LET sub == result[i] IN
         IF sub.shape # "object" THEN Raised
         ELSE IF sub.verdict # "OK" \/ sub.creationTimeSeconds = NoTs
              THEN scan_result_utc(result, i + 1, user_tz, today_local)
         ELSE IF sub.creationTimeSeconds = BadTs THEN Raised
         ELSE IF sub.creationTimeSeconds \div 24 = today_local THEN True
         ELSE scan_result_utc(result, i + 1, user_tz, today_local)

\* The loop of lines 89-99 from element i on.
RECURSIVE scan_result(_, _, _, _)
scan_result(result, i, user_tz, today_local) ==
    IF i > Len(result) THEN False
    ELSE LET sub == result[i] IN
         IF sub.shape # "object" THEN Raised
         ELSE IF sub.verdict # "OK" \/ sub.creationTimeSeconds = NoTs
              THEN scan_result(result, i + 1, user_tz, today_local)
         ELSE IF sub.creationTimeSeconds = BadTs THEN Raised
         ELSE IF LocalDate(sub.creationTimeSeconds, user_tz) = today_local THEN True
         ELSE scan_result(result, i + 1, user_tz, today_local)

\* Mutant of cf_after_fetch: the status of the response is not looked at.
cf_after_fetch_any_status(resp, user_tz, today_local) ==
    IF resp.kind # "object" THEN Raised
    ELSE IF ~resp.result_is_list THEN Raised
    ELSE scan_result(resp.result, 1, user_tz, today_local)

\* cf_has_solved_today from the await on: resp is what the await gave,
\* user_tz and today_local are what lines 74-78 computed before it.
cf_after_fetch(resp, user_tz, today_local) ==
    IF resp.kind # "object" THEN Raised
    ELSE IF resp.status # "OK" THEN False
    ELSE IF ~resp.result_is_list THEN Raised
    ELSE scan_result(resp.result, 1, user_tz, today_local)

\* cf_has_solved_today as one call at instant t (the request takes no
\* time): handle NoHandle stands for None or "".
cf_has_solved_today(handle, user_tz_name, t, resp) ==
    IF handle = NoHandle THEN False
    ELSE LET user_tz == resolve_tz(user_tz_name) IN
         cf_after_fetch(resp, user_tz, LocalDate(t, user_tz))

\* Whether a call reaches the request of lines 82-85: lines 71-72 return
\* before it when the handle is None or "".
issues_request(handle) == handle # NoHandle

\* Lines 216-219 of send_reminders: an exception of the feed client counts
\* as not solved.
sweep_ok_today(outcome) == outcome = True

\* Lines 187-191 of cmd_streak: the reply, or the exception going up to
\* the dispatcher.
streak_reply(outcome) ==
    IF outcome = Raised THEN "exception"
    ELSE IF outcome = True THEN "solved" ELSE "not_solved"

\* Responses the sweep's request is answered with: every kind, with at
\* most one submission (the sweep reads nothing but the outcome).
SweepResponsesAt(t) ==
    {Resp("error", "", TRUE, <<>>), Resp("nonobject", "", TRUE, <<>>)}
      \cup {Resp("object", st, TRUE, <<>>) : st \in {"OK", "FAILED"}}
      \cup {Resp("object", st, TRUE, <<sub>>) : st \in {"OK", "FAILED"}, sub \in SubsAt(t)}
      \cup {Resp("object", st, FALSE, <<>>) : st \in {"OK", "FAILED"}}

\* ------------------------------------------------------------------
\* State
\* ------------------------------------------------------------------
VARIABLES
    DB,          \* the in-memory record store (module global DB)
    file,        \* the contents of DATA_FILE
    now,         \* the current instant
    machineTz,   \* the zone of the machine's clock, which date.today() reads
    sweep,       \* the running send_reminders coroutine, if any
    eventsLeft,  \* events of the environment still allowed
    hist,        \* history: per user, what a sweep last did at this instant
    everMarked,  \* history: the <<user, slot>> mark_notified was called for
    call,        \* the last call made by the feed client harness
    cmd          \* history: the last command handled and its reply

vars == <<DB, file, now, machineTz, sweep, eventsLeft, hist, everMarked, call, cmd>>

\* What a sweep last did for a user at the current instant: last is "none",
\* "sent" (a reminder was delivered), "failed" (the delivery raised) or
\* "solved" (the feed said solved, and the sweep marked); slot is the slot
\* of that sweep; old tells that the process was restarted since; retry
\* tells that the entry before this one was "failed". The entry goes back
\* to NoHist when the clock advances.
NoHist == [last |-> "none", slot |-> "", old |-> FALSE, retry |-> FALSE]

Idle == [pc |-> "idle", slot |-> "", idx |-> 0, size |-> 0, tz |-> "", today |-> 0]

\* A call of cf_has_solved_today: its caller, its arguments, what the feed
\* answered, what the call gave (outcome), what the caller made of it
\* (result), whether the call sent a request to the feed (requested) and
\* the value of DEFAULT_TZ the process runs with (local_tz).
\* NoCall: none was set up.
FeedCall(caller, handle, tz, resp, outcome, result) ==
    [caller |-> caller, handle |-> handle, tz |-> tz, resp |-> resp,
     outcome |-> outcome, result |-> result, requested |-> FALSE,
     local_tz |-> DEFAULT_TZ]

NoCall == FeedCall("none", "", "", Resp("error", "", TRUE, <<>>), "", "")

\* date.today(): the date on the machine's clock.
date_today == LocalDate(now, machineTz)

\* ------------------------------------------------------------------
\* The sweep: send_reminders(app, slot)
\* ------------------------------------------------------------------
\* Mutant of skip_user: the check for a handle is left out.
skip_user_dedup_only(db, i, slot, t) ==
    already_notified_today(db, db[i].uid, slot, db[i].rec.timezone, t)

\* Lines 211-215: the user at position i is passed over.
skip_user(db, i, slot, t) ==
    \/ db[i].rec.handle = NoHandle
    \/ already_notified_today(db, db[i].uid, slot, db[i].rec.timezone, t)

\* The first position from i on that is not passed over, 0 when the
\* iteration reaches the end of the dict.
RECURSIVE next_due(_, _, _, _)
next_due(db, i, slot, t) ==
    IF i > Len(db) THEN 0
    ELSE IF skip_user(db, i, slot, t) THEN next_due(db, i + 1, slot, t)
    ELSE i

\* The coroutine suspended in the feed request for the user at position j:
\* lines 74-78 have resolved the zone and computed today_local.
at_fetch(db, j, slot, size, t) ==
    LET tz == resolve_tz(db[j].rec.timezone) IN
    [pc |-> "fetch", slot |-> slot, idx |-> j, size |-> size,
     tz |-> tz, today |-> LocalDate(t, tz)]

\* The dict iterator of line 209 asked for its next item: it raises
\* RuntimeError ("dictionary changed size during iteration") when the
\* dict no longer has the size it had when the iterator was made.
iterator_raises(db, size) == Len(db) # size

\* The for statement asking the dict iterator for the item at position i
\* or after: RuntimeError when the dict changed size since the iterator
\* was made (the coroutine ends), else on to the next user that is not
\* passed over, or the end.
loop_from(db, i, slot, size, t) ==
    IF iterator_raises(db, size) THEN Idle
    ELSE LET j == next_due(db, i, slot, t) IN
         IF j = 0 THEN Idle ELSE at_fetch(db, j, slot, size, t)

\* Mutant of on_delivery_failure: mark_notified is called although the
\* delivery raised.
on_delivery_failure_marks(db, uid, slot, today) ==
    mark_notified(db, uid, slot, today)

\* Mutant of on_delivery_failure: a user who cannot be reached loses the
\* handle.
on_delivery_failure_forgets(db, uid, slot, today) ==
    Put(db, uid, [Get(db, uid) EXCEPT !.handle = NoHandle])

\* Lines 231-232: the dict after a delivery that raised.
on_delivery_failure(db, uid, slot, today) == db

\* send_reminders(app, slot) called: it runs up to its first await.
BeginSweep(slot) ==
    /\ sweep.pc = "idle"
    /\ sweep' = loop_from(DB, 1, slot, Len(DB), now)
    /\ UNCHANGED <<DB, file, now, machineTz, hist, everMarked, call, cmd>>

\* One of the sweeps a behaviour of Spec is allowed.
SweepStart(slot) ==
    /\ eventsLeft > 0
    /\ eventsLeft' = eventsLeft - 1
    /\ BeginSweep(slot)

\* The job scheduler_job registered for slot firing, as it goes on doing.
SweepFire(slot) ==
    /\ BeginSweep(slot)
    /\ UNCHANGED eventsLeft

FetchDone(resp) ==
    /\ sweep.pc = "fetch"
    /\ LET uid == DB[sweep.idx].uid
           outcome == cf_after_fetch(resp, sweep.tz, sweep.today)
       IN  IF sweep_ok_today(outcome)
           THEN /\ DB' = mark_notified(DB, uid, sweep.slot, date_today)
                /\ file' = save_db(DB')
                /\ hist' = [hist EXCEPT ![uid] =
                              [last |-> "solved", slot |-> sweep.slot, old |-> FALSE,
                               retry |-> FALSE]]
                /\ everMarked' = everMarked \cup {<<uid, sweep.slot>>}
                /\ sweep' = loop_from(DB', sweep.idx + 1, sweep.slot, sweep.size, now)
           ELSE /\ sweep' = [sweep EXCEPT !.pc = "send"]
                /\ UNCHANGED <<DB, file, hist, everMarked>>
    /\ UNCHANGED <<now, machineTz, eventsLeft, call, cmd>>

DeliverOk ==
    /\ sweep.pc = "send"
    /\ LET uid == DB[sweep.idx].uid IN
       /\ hist' = [hist EXCEPT ![uid] =
                     [last |-> "sent", slot |-> sweep.slot, old |-> FALSE,
                      retry |-> hist[uid].last = "failed"]]
       /\ everMarked' = everMarked \cup {<<uid, sweep.slot>>}
       /\ DB' = mark_notified(DB, uid, sweep.slot, date_today)
       /\ file' = save_db(DB')
       /\ sweep' = loop_from(DB', sweep.idx + 1, sweep.slot, sweep.size, now)
    /\ UNCHANGED <<now, machineTz, eventsLeft, call, cmd>>

DeliverFail ==
    /\ sweep.pc = "send"
    /\ LET uid == DB[sweep.idx].uid IN
       /\ hist' = [hist EXCEPT ![uid] =
                     [last |-> "failed", slot |-> sweep.slot, old |-> FALSE,
                      retry |-> FALSE]]
       /\ DB' = on_delivery_failure(DB, uid, sweep.slot, date_today)
       /\ file' = IF DB' = DB THEN file ELSE save_db(DB')
       /\ sweep' = loop_from(DB', sweep.idx + 1, sweep.slot, sweep.size, now)
    /\ UNCHANGED <<now, machineTz, eventsLeft, everMarked, call, cmd>>

\* ------------------------------------------------------------------
\* Command handlers
\* ------------------------------------------------------------------
NoArgs == "<no args>"

\* Lines 154-161: what cmd_sethandle replies, "usage" with no argument.
sethandle_reply(arg) == IF arg = NoArgs THEN "usage" ELSE "saved"

\* Mutant of settz_reply: the name is not looked up in all_timezones.
settz_reply_unchecked(arg) == IF arg = NoArgs THEN "usage" ELSE "saved"

\* Lines 166-178: what cmd_settz replies, "usage" with no argument,
\* "bad_tz" for a name pytz does not know.
settz_reply(arg) ==
    IF arg = NoArgs THEN "usage"
    ELSE IF arg \notin all_timezones THEN "bad_tz"
    ELSE "saved"

\* Lines 183-191: what cmd_streak replies, "need_handle" without a record
\* or a handle, else the answer made from the feed (FeedSpec below).
streak_reply_for(db, uid) ==
    IF uid \notin Keys(db) THEN "need_handle"
    ELSE IF Get(db, uid).handle = NoHandle THEN "need_handle"
    ELSE "status"

\* The entry of the history for a command and its reply.
Handled(name, uid, arg, reply) ==
    [name |-> name, uid |-> uid, arg |-> arg, reply |-> reply]

NoCmd == Handled("", "", "", "")

cmd_start(uid) ==
    /\ eventsLeft > 0
    /\ eventsLeft' = eventsLeft - 1
    /\ DB' = setdefault(DB, uid)
    /\ file' = save_db(DB')
    /\ UNCHANGED <<now, machineTz, sweep, hist, everMarked, call>>

cmd_sethandle(uid, arg) ==
    /\ IF sethandle_reply(arg) # "saved"
       THEN UNCHANGED <<DB, file, eventsLeft>>
       ELSE /\ eventsLeft > 0
            /\ eventsLeft' = eventsLeft - 1
            /\ DB' = LET db1 == setdefault(DB, uid)
                     IN Put(db1, uid, [Get(db1, uid) EXCEPT !.handle = arg])
            /\ file' = save_db(DB')
    /\ UNCHANGED <<now, machineTz, sweep, hist, everMarked, call>>

cmd_settz(uid, arg) ==
    /\ IF settz_reply(arg) # "saved"
       THEN UNCHANGED <<DB, file, eventsLeft>>
       ELSE /\ eventsLeft > 0
            /\ eventsLeft' = eventsLeft - 1
            /\ DB' = LET db1 == setdefault(DB, uid)
                     IN Put(db1, uid, [Get(db1, uid) EXCEPT !.timezone = arg])
            /\ file' = save_db(DB')
    /\ UNCHANGED <<now, machineTz, sweep, hist, everMarked, call>>

\* cmd_streak: replies only; the feed request it awaits for a user with a
\* handle changes nothing of the bot's state (FeedSpec below applies
\* cf_has_solved_today as cmd_streak calls it).
cmd_streak(uid) ==
    /\ UNCHANGED <<DB, file, now, machineTz, sweep, eventsLeft, hist, everMarked, call>>

\* cmd_whoami: DB.get(uid, UserRecord()) makes no record; replies only.
cmd_whoami(uid) ==
    /\ UNCHANGED <<DB, file, now, machineTz, sweep, eventsLeft, hist, everMarked, call>>

\* ------------------------------------------------------------------
\* Environment
\* ------------------------------------------------------------------
Tick ==
    /\ eventsLeft > 0
    /\ eventsLeft' = eventsLeft - 1
    /\ now' = now + 12
    /\ hist' = [u \in Users |-> NoHist]
    /\ UNCHANGED <<DB, file, machineTz, sweep, everMarked, call, cmd>>

\* The process stops and is started again: line 63 rebuilds DB from the
\* file, and a sweep that was running is gone.
Restart ==
    /\ eventsLeft > 0
    /\ eventsLeft' = eventsLeft - 1
    /\ DB' = load_db(file)
    /\ sweep' = Idle
    /\ hist' = [u \in Users |->
                  IF hist[u].last = "none" THEN NoHist
                  ELSE [hist[u] EXCEPT !.old = TRUE]]
    /\ UNCHANGED <<file, now, machineTz, everMarked, call, cmd>>

Init ==
    /\ file = NoFile
    /\ DB = load_db(file)
    /\ now = 12
    /\ machineTz \in all_timezones
    /\ sweep = Idle
    /\ eventsLeft = MaxEvents
    /\ hist = [u \in Users |-> NoHist]
    /\ everMarked = {}
    /\ call = NoCall
    /\ cmd = NoCmd

Next ==
    \/ \E slot \in Slots : SweepStart(slot)
    \/ \E resp \in SweepResponsesAt(now) : FetchDone(resp)
    \/ DeliverOk
    \/ DeliverFail
    \/ \E uid \in Users : cmd_start(uid) /\ UNCHANGED cmd
    \/ \E uid \in Users, arg \in Handles \cup {NoArgs} : cmd_sethandle(uid, arg) /\ UNCHANGED cmd
    \/ \E uid \in Users, arg \in all_timezones \cup {BadTzName, NoArgs} : cmd_settz(uid, arg) /\ UNCHANGED cmd
    \/ \E uid \in Users : cmd_streak(uid) /\ UNCHANGED cmd
    \/ \E uid \in Users : cmd_whoami(uid) /\ UNCHANGED cmd
    \/ Tick
    \/ Restart

Spec == Init /\ [][Next]_vars

\* ------------------------------------------------------------------
\* Sweeps and the clock going on for ever. The clock reads 12 or 24; when
\* it passes 24 every instant of the state is taken 24 hours back and
\* every date one day back, which changes nothing the code can observe
\* (it compares dates for equality with today's only). A date before day
\* 0 can never be today's again and is kept as day -1.
\* ------------------------------------------------------------------
\* date.fromisoformat, the inverse of isoformat.
fromisoformat(iso) == IF iso[1] = 2025 THEN iso[3] - 30 ELSE iso[3] + 1

DayBefore(d) == IF d <= 0 THEN -1 ELSE d - 1

DictDayBefore(ln) ==
    [s \in Slots |-> IF ln[s] = NoDate THEN NoDate
                     ELSE isoformat(DayBefore(fromisoformat(ln[s])))]

DbDayBefore(db) ==
    [i \in 1..Len(db) |->
        [db[i] EXCEPT !.rec.last_notified.d = DictDayBefore(@)]]

FileDayBefore(f) ==
    [f EXCEPT !.raw = [i \in 1..Len(f.raw) |->
        [f.raw[i] EXCEPT !.obj.last_notified = DictDayBefore(@)]]]

\* The slot whose job LiveSpec follows.
LiveSlots == {REMINDER_TIMES[1]}

LiveTick ==
    /\ IF now = 12
       THEN /\ now' = 24
            /\ UNCHANGED <<DB, file, sweep>>
       ELSE /\ now' = 12
            /\ DB' = DbDayBefore(DB)
            /\ file' = FileDayBefore(file)
            /\ sweep' = IF sweep.pc = "idle" THEN sweep
                        ELSE [sweep EXCEPT !.today = DayBefore(@)]
    /\ hist' = [u \in Users |-> NoHist]
    /\ UNCHANGED <<machineTz, eventsLeft, everMarked, call, cmd>>

LiveInit ==
    /\ file = NoFile
    /\ DB = load_db(file)
    /\ now = 12
    /\ machineTz \in all_timezones
    /\ sweep = Idle
    /\ eventsLeft = MaxLiveEvents
    /\ hist = [u \in Users |-> NoHist]
    /\ everMarked = {}
    /\ call = NoCall
    /\ cmd = NoCmd

LiveNext ==
    \/ \E slot \in LiveSlots : SweepFire(slot)
    \/ \E resp \in SweepResponsesAt(now) : FetchDone(resp)
    \/ DeliverOk
    \/ DeliverFail
    \/ \E uid \in Users : cmd_start(uid) /\ UNCHANGED cmd
    \/ \E uid \in Users, arg \in Handles \cup {NoArgs} : cmd_sethandle(uid, arg) /\ UNCHANGED cmd
    \/ \E uid \in Users, arg \in all_timezones \cup {BadTzName, NoArgs} : cmd_settz(uid, arg) /\ UNCHANGED cmd
    \/ LiveTick
    \/ Restart

\* The slot's job keeps firing, a request and a send_message come to an
\* end, a delivery to a user that is tried again and again succeeds at
\* last, and the clock goes on.
LiveSpec ==
    /\ LiveInit
    /\ [][LiveNext]_vars
    /\ \A slot \in LiveSlots : SF_vars(SweepFire(slot))
    /\ WF_vars(\E resp \in SweepResponsesAt(now) : FetchDone(resp))
    /\ WF_vars(DeliverOk \/ DeliverFail)
    /\ \A u \in Users : SF_vars(sweep.pc = "send" /\ DB[sweep.idx].uid = u /\ DeliverOk)
    /\ WF_vars(LiveTick)

\* ------------------------------------------------------------------
\* Zone names resolved under every setting of LOCAL_TZ: line 22 takes
\* DEFAULT_TZ from the environment as it is, a recognised name or not.
\* ------------------------------------------------------------------
LocalTzSettings == all_timezones \cup {BadTzName}

UnknownTimeZoneError == "UnknownTimeZoneError"

\* pytz.timezone(name): the zone, or UnknownTimeZoneError raised.
tz_get(name) == IF name \in all_timezones THEN name ELSE UnknownTimeZoneError

\* Lines 74-77 and 121-123 in a process whose DEFAULT_TZ is local_tz.
resolve_tz_under(user_tz_name, local_tz) ==
    tz_get(IF user_tz_name \in all_timezones THEN user_tz_name ELSE local_tz)

\* already_notified_today in a process whose DEFAULT_TZ is local_tz.
already_notified_today_under(db, user_id, slot, user_tz_name, t, local_tz) ==
    IF user_id \notin Keys(db) THEN False
    ELSE LET rec == Get(db, user_id)
             user_tz == resolve_tz_under(user_tz_name, local_tz)
         IN  IF rec.last_notified.none THEN False
             ELSE IF user_tz = UnknownTimeZoneError THEN Raised
             ELSE IF rec.last_notified.d[slot] = isoformat(LocalDate(t, user_tz))
                  THEN True ELSE False

\* cf_has_solved_today in a process whose DEFAULT_TZ is local_tz.
cf_has_solved_today_under(handle, user_tz_name, t, resp, local_tz) ==
    IF handle = NoHandle THEN False
    ELSE LET user_tz == resolve_tz_under(user_tz_name, local_tz) IN
         IF user_tz = UnknownTimeZoneError THEN Raised
         ELSE cf_after_fetch(resp, user_tz, LocalDate(t, user_tz))

\* The record of a user after /sethandle and a mark for the first slot,
\* with the zone stored for them.
TzRecord(stored, today) ==
    [handle |-> "tourist", timezone |-> stored,
     last_notified |-> [none |-> FALSE,
                        d |-> [EmptyDict EXCEPT ![REMINDER_TIMES[1]] = isoformat(today)]]]

\* The process runs with DEFAULT_TZ = local_tz; the zone stored for the
\* user is UserRecord's default (line 32) or one /settz accepted; the name
\* a helper is called with is any name, a corrupted one included.
TzInit ==
    /\ now \in {12, 24, 36}
    /\ machineTz = DEFAULT_TZ
    /\ sweep = Idle
    /\ eventsLeft = 0
    /\ hist = [u \in Users |-> NoHist]
    /\ everMarked = {}
    /\ cmd = NoCmd
    /\ \E local_tz \in LocalTzSettings,
          name \in all_timezones \cup {BadTzName},
          resp \in SweepResponsesAt(now) :
          /\ call = [FeedCall("pending", "tourist", name, resp, "", "")
                       EXCEPT !.local_tz = local_tz]
          /\ \E stored \in all_timezones \cup {local_tz} :
                DB = <<[uid |-> "1", rec |-> TzRecord(stored, date_today)]>>
    /\ file = save_db(DB)

\* already_notified_today(uid, slot, name): result is the zone it used.
NotifiedCall ==
    /\ call.caller = "pending"
    /\ call' = [call EXCEPT
                  !.caller = "already_notified_today",
                  !.outcome = already_notified_today_under(
                                 DB, "1", REMINDER_TIMES[1], call.tz, now, call.local_tz),
                  !.result = resolve_tz_under(call.tz, call.local_tz)]
    /\ UNCHANGED <<DB, file, now, machineTz, sweep, eventsLeft, hist, everMarked, cmd>>

\* cf_has_solved_today(handle, name): result is the zone it used.
SolvedCall ==
    /\ call.caller = "pending"
    /\ call' = [call EXCEPT
                  !.caller = "cf_has_solved_today",
                  !.outcome = cf_has_solved_today_under(
                                 call.handle, call.tz, now, call.resp, call.local_tz),
                  !.result = resolve_tz_under(call.tz, call.local_tz),
                  !.requested = (/\ issues_request(call.handle)
                                 /\ resolve_tz_under(call.tz, call.local_tz)
                                      # UnknownTimeZoneError)]
    /\ UNCHANGED <<DB, file, now, machineTz, sweep, eventsLeft, hist, everMarked, cmd>>

TzNext ==
    \/ NotifiedCall
    \/ SolvedCall

TzSpec == TzInit /\ [][TzNext]_vars

\* ------------------------------------------------------------------
\* The feed client on its own: cf_has_solved_today applied to every
\* handle, zone name, instant and feed answer of the bounded domains, as
\* called directly, by send_reminders and by cmd_streak
\* ------------------------------------------------------------------
FeedInit ==
    /\ file = NoFile
    /\ DB = load_db(file)
    /\ now \in {12, 24, 36}
    /\ machineTz = DEFAULT_TZ
    /\ sweep = Idle
    /\ eventsLeft = 0
    /\ hist = [u \in Users |-> NoHist]
    /\ everMarked = {}
    /\ \E handle \in Handles \cup {NoHandle},
          tz \in all_timezones \cup {BadTzName},
          resp \in ResponsesAt(now) :
          call = FeedCall("pending", handle, tz, resp, "", "")
    /\ cmd = NoCmd

\* The call on its own: what it returns, or that it raises.
DirectCall ==
    /\ call.caller = "pending"
    /\ call' = [call EXCEPT
                  !.caller = "direct",
                  !.outcome = cf_has_solved_today(call.handle, call.tz, now, call.resp),
                  !.result = @,
                  !.requested = issues_request(call.handle)]
    /\ UNCHANGED <<DB, file, now, machineTz, sweep, eventsLeft, hist, everMarked, cmd>>

\* Lines 216-220 of send_reminders: "send" when a reminder is owed,
\* "mark" when the user counts as solved.
SweepCall ==
    /\ call.caller = "pending"
    /\ call.handle # NoHandle
    /\ LET outcome == cf_has_solved_today(call.handle, call.tz, now, call.resp) IN
       call' = [call EXCEPT
                  !.caller = "send_reminders",
                  !.outcome = outcome,
                  !.result = IF sweep_ok_today(outcome) THEN "mark" ELSE "send",
                  !.requested = issues_request(call.handle)]
    /\ UNCHANGED <<DB, file, now, machineTz, sweep, eventsLeft, hist, everMarked, cmd>>

\* Lines 183-191 of cmd_streak for a user whose record has a handle.
StreakCall ==
    /\ call.caller = "pending"
    /\ call.handle # NoHandle
    /\ LET outcome == cf_has_solved_today(call.handle, call.tz, now, call.resp) IN
       call' = [call EXCEPT
                  !.caller = "cmd_streak",
                  !.outcome = outcome,
                  !.result = streak_reply(outcome),
                  !.requested = issues_request(call.handle)]
    /\ UNCHANGED <<DB, file, now, machineTz, sweep, eventsLeft, hist, everMarked, cmd>>

FeedNext ==
    \/ DirectCall
    \/ SweepCall
    \/ StreakCall

FeedSpec == FeedInit /\ [][FeedNext]_vars

\* ------------------------------------------------------------------
\* The bot with a file that cannot always be written: the open of line 59
\* can raise OSError, which leaves the file as it was. mark_notified has
\* then set the slot in memory already (line 111 runs before line 112).
\* ------------------------------------------------------------------
FailInit ==
    /\ file = NoFile
    /\ DB = load_db(file)
    /\ now = 12
    /\ machineTz \in all_timezones
    /\ sweep = Idle
    /\ eventsLeft = MaxFailEvents
    /\ hist = [u \in Users |-> NoHist]
    /\ everMarked = {}
    /\ call = NoCall
    /\ cmd = NoCmd

\* Lines 221-232 when send_message succeeds and the save_db of
\* mark_notified raises: the exception is raised inside the try of line
\* 221, "except Exception: pass" catches it and the loop goes on.
DeliverOkSaveFails ==
    /\ sweep.pc = "send"
    /\ LET uid == DB[sweep.idx].uid IN
       /\ hist' = [hist EXCEPT ![uid] =
                     [last |-> "sent", slot |-> sweep.slot, old |-> FALSE,
                      retry |-> hist[uid].last = "failed"]]
       /\ everMarked' = everMarked \cup {<<uid, sweep.slot>>}
       /\ DB' = mark_notified(DB, uid, sweep.slot, date_today)
       /\ file' = file
       /\ sweep' = loop_from(DB', sweep.idx + 1, sweep.slot, sweep.size, now)
    /\ UNCHANGED <<now, machineTz, eventsLeft, call, cmd>>

\* Lines 233-235 when the feed says solved and the save_db of
\* mark_notified raises: nothing catches the exception, it leaves
\* send_reminders and the coroutine ends.
FetchDoneSaveFails(resp) ==
    /\ sweep.pc = "fetch"
    /\ sweep_ok_today(cf_after_fetch(resp, sweep.tz, sweep.today))
    /\ LET uid == DB[sweep.idx].uid IN
       /\ hist' = [hist EXCEPT ![uid] =
                     [last |-> "solved", slot |-> sweep.slot, old |-> FALSE,
                      retry |-> FALSE]]
       /\ everMarked' = everMarked \cup {<<uid, sweep.slot>>}
       /\ DB' = mark_notified(DB, uid, sweep.slot, date_today)
       /\ file' = file
       /\ sweep' = Idle
    /\ UNCHANGED <<now, machineTz, eventsLeft, call, cmd>>

FailNext ==
    \/ Next
    \/ DeliverOkSaveFails
    \/ \E resp \in SweepResponsesAt(now) : FetchDoneSaveFails(resp)

FailSpec == FailInit /\ [][FailNext]_vars

\* ------------------------------------------------------------------
\* The bot with the history of its commands: every command handled, one
\* with a bad or missing argument and a query included, is written to cmd
\* with the reply it gave.
\* ------------------------------------------------------------------
CmdInit ==
    /\ file = NoFile
    /\ DB = load_db(file)
    /\ now = 12
    /\ machineTz \in all_timezones
    /\ sweep = Idle
    /\ eventsLeft = MaxCmdEvents
    /\ hist = [u \in Users |-> NoHist]
    /\ everMarked = {}
    /\ call = NoCall
    /\ cmd = NoCmd

Start(uid) ==
    /\ cmd_start(uid)
    /\ cmd' = Handled("start", uid, NoArgs, "welcome")

SetHandle(uid, arg) ==
    /\ cmd_sethandle(uid, arg)
    /\ cmd' = Handled("sethandle", uid, arg, sethandle_reply(arg))

SetTz(uid, arg) ==
    /\ cmd_settz(uid, arg)
    /\ cmd' = Handled("settz", uid, arg, settz_reply(arg))

Streak(uid) ==
    /\ cmd_streak(uid)
    /\ cmd' = Handled("streak", uid, NoArgs, streak_reply_for(DB, uid))

WhoAmI(uid) ==
    /\ cmd_whoami(uid)
    /\ cmd' = Handled("whoami", uid, NoArgs, "profile")

CmdNext ==
    \/ \E slot \in Slots : SweepStart(slot)
    \/ \E resp \in SweepResponsesAt(now) : FetchDone(resp)
    \/ DeliverOk
    \/ DeliverFail
    \/ \E uid \in Users : Start(uid)
    \/ \E uid \in Users, arg \in Handles \cup {NoArgs} : SetHandle(uid, arg)
    \/ \E uid \in Users, arg \in all_timezones \cup {BadTzName, NoArgs} : SetTz(uid, arg)
    \/ \E uid \in Users : Streak(uid)
    \/ \E uid \in Users : WhoAmI(uid)
    \/ Tick
    \/ Restart

CmdSpec == CmdInit /\ [][CmdNext]_vars

\* ------------------------------------------------------------------
\* Properties
\* ------------------------------------------------------------------
TzNames == all_timezones \cup {BadTzName}

\* The user the suspended sweep is working for.
SweepUser == DB[sweep.idx].uid

\* A step in which the sweep delivers a reminder.
Delivers == sweep.pc = "send" /\ DeliverOk

\* A step in which the sweep's delivery raises.
DeliveryRaises == sweep.pc = "send" /\ DeliverFail

\* A step in which the feed request of the sweep is answered.
Answered == sweep.pc = "fetch" /\ \E resp \in SweepResponsesAt(now) : FetchDone(resp)

\* A step in which the sweep finds its user solved and marks.
FindsSolved == Answered /\ sweep'.pc # "send"

\* A step in which mark_notified runs for user u and slot s.
Marks(u, s) ==
    /\ Delivers \/ FindsSolved
    /\ SweepUser = u
    /\ sweep.slot = s

\* C1: two consecutive sweeps for the same slot on the same day deliver at
\* most one reminder to a user: no reminder is delivered to a user to whom
\* the previous sweep of the same process, at this very instant (so on the
\* same day on every clock), delivered one for the same slot.
C1_SweepIdempotent ==
    [][Delivers =>
         ~(/\ hist[SweepUser].last = "sent"
           /\ hist[SweepUser].slot = sweep.slot
           /\ ~hist[SweepUser].old)]_vars

\* C2: already_notified_today(u, s, tz) is false before any
\* mark_notified(u, s), and true for every zone name tz right after each
\* mark_notified(u, s), the first of the day or a later one.
C2_MarkThenNotified ==
    [][\A u \in Users, s \in Slots, tz \in TzNames :
         /\ <<u, s>> \notin everMarked'
              => ~already_notified_today(DB', u, s, tz, now')
         /\ Marks(u, s)
              => already_notified_today(DB', u, s, tz, now')]_vars

\* C3: a delivery that raises leaves the store and the file exactly as they
\* were, so a slot that was unset stays unset and no zone's clock makes a
\* later sweep pass the user over; the sweep goes on with the remaining
\* users; and a later sweep for that slot that reaches the user and does
\* not find them solved calls send_message again.
C3_FailedDeliveryStaysOwed ==
    [][/\ DeliveryRaises =>
            /\ DB' = DB
            /\ file' = file
            /\ (Get(DB, SweepUser).last_notified.none
                  \/ Get(DB, SweepUser).last_notified.d[sweep.slot] = NoDate)
                 => \A tz \in TzNames, t \in {now, now + 12, now + 24} :
                      ~already_notified_today(DB', SweepUser, sweep.slot, tz, t)
            /\ Len(DB) = sweep.size =>
                 \A j \in (sweep.idx + 1)..Len(DB) :
                     (/\ ~skip_user(DB, j, sweep.slot, now)
                      /\ \A k \in (sweep.idx + 1)..(j - 1) :
                            skip_user(DB, k, sweep.slot, now))
                       => sweep'.pc = "fetch" /\ sweep'.idx = j
       /\ (/\ Answered
           /\ hist[SweepUser].last = "failed"
           /\ hist[SweepUser].slot = sweep.slot
           /\ ~FindsSolved)
            => sweep'.pc = "send" /\ sweep'.idx = sweep.idx]_vars

\* C3 witness: a delivery to a user raised, the sweep went on to a later
\* user, then a later sweep for the same slot came back to the first user
\* and is in send_message for them again.
C3_Witness ==
    /\ sweep.pc = "send"
    /\ hist[SweepUser].last = "failed"
    /\ hist[SweepUser].slot = sweep.slot
    /\ sweep.idx = 1
    /\ Len(DB) = 2
    /\ hist[DB[2].uid].last # "none"

\* C4: whenever a sweep has a feed request or a message in flight, it is
\* for a user whose record has a handle; handles are never cleared, so a
\* user without a handle never had one in flight.
C4_NoHandleNoTraffic ==
    sweep.pc \in {"fetch", "send"} => DB[sweep.idx].rec.handle # NoHandle

\* C4 witness: the sweep has passed over a record without a handle and has
\* a request in flight for the user after it.
C4_Witness ==
    /\ sweep.pc = "fetch"
    /\ sweep.idx = 2
    /\ DB[1].rec.handle = NoHandle

\* C5: once a sweep has found a user solved and marked them, no sweep for
\* another slot at that same instant delivers a reminder to that user.
C5_SolvedSuppressesLaterSlots ==
    [][Delivers =>
         ~(/\ hist[SweepUser].last = "solved"
           /\ hist[SweepUser].slot # sweep.slot)]_vars

\* C6: when the feed reports an accepted submission dated today in the
\* user's zone for a user with no entry for the slot, the sweep sends
\* nothing and sets the slot to today's date in the user's zone.
C6_SolvedMarksToday ==
    [][(/\ FindsSolved
        /\ sweep.today = LocalDate(now, sweep.tz)
        /\ (Get(DB, SweepUser).last_notified.none
              \/ Get(DB, SweepUser).last_notified.d[sweep.slot] = NoDate))
         => /\ hist'[SweepUser].last = "solved"
            /\ Get(DB', SweepUser).last_notified.d[sweep.slot]
                 = isoformat(LocalDate(now, sweep.tz))]_vars

\* C7: no reminder is delivered to a user to whom one was delivered for the
\* same slot at this very instant before the process was restarted.
C7_AtMostOnceAcrossRestart ==
    [][Delivers =>
         ~(/\ hist[SweepUser].last = "sent"
           /\ hist[SweepUser].slot = sweep.slot
           /\ hist[SweepUser].old)]_vars

\* A response of the documented shape: a JSON object whose result is a
\* list of submission objects, each with a numeric or missing time.
WellFormed(resp) ==
    /\ resp.kind = "object"
    /\ resp.result_is_list
    /\ \A i \in 1..Len(resp.result) :
          /\ resp.result[i].shape = "object"
          /\ resp.result[i].creationTimeSeconds # BadTs

\* An accepted submission of the response whose date on the calendar of
\* zone tz is the date of instant t there.
AcceptedToday(resp, tz, t) ==
    \E i \in 1..Len(resp.result) :
        /\ resp.result[i].verdict = "OK"
        /\ resp.result[i].creationTimeSeconds >= 0
        /\ (resp.result[i].creationTimeSeconds + UtcOffset(tz)) \div 24
             = (t + UtcOffset(tz)) \div 24

\* C9: for a handle and a well-formed response with status OK,
\* cf_has_solved_today returns, and returns true exactly when a submission
\* with verdict OK falls on today's date in the user's resolved zone.
C9_SolvedIffAcceptedToday ==
    (/\ call.caller = "direct"
     /\ call.handle # NoHandle
     /\ WellFormed(call.resp)
     /\ call.resp.status = "OK")
      => /\ call.outcome \in {True, False}
         /\ call.outcome = True
              <=> AcceptedToday(call.resp, resolve_tz(call.tz), now)

\* C9 witness: the call returned true for a single accepted submission
\* whose date in UTC is the day before today's date in UTC.
C9_Witness ==
    /\ call.caller = "direct"
    /\ call.outcome = True
    /\ Len(call.resp.result) = 1
    /\ call.resp.result[1].creationTimeSeconds \div 24 < now \div 24

\* C10: when the feed is unavailable or its response malformed,
\* cf_has_solved_today returns false without raising, for a direct call and
\* for both callers, and cmd_streak replies instead of failing.
C10_FeedFailureIsFalse ==
    (call.caller # "pending" /\ call.handle # NoHandle /\ ~WellFormed(call.resp))
      => /\ call.outcome = False
         /\ call.result # "exception"

\* C8: a user whose delivery raised is in the end delivered a reminder,
\* unless a sweep comes to find them solved.
C8_FailedDeliveryIsRetried ==
    \A u \in Users :
        (hist[u].last = "failed") ~> (hist[u].last \in {"sent", "solved"})

\* C8 witness: a reminder was delivered to a user whose previous delivery
\* for the slot, at this instant, raised.
C8_Witness ==
    \E u \in Users :
        /\ hist[u].last = "sent"
        /\ hist[u].retry
        /\ u \in Keys(DB)
        /\ Get(DB, u).handle # NoHandle
        /\ sweep.pc = "idle"

\* C11: cf_has_solved_today returns false for every response object whose
\* status is not OK, whatever its result holds, and returns false without
\* a request to the feed when the handle is None or "".
C11_NonOkOrNoHandleIsFalse ==
    /\ (/\ call.caller # "pending"
        /\ call.handle # NoHandle
        /\ call.resp.kind = "object"
        /\ call.resp.status # "OK")
         => call.outcome = False /\ call.requested
    /\ (call.caller = "direct" /\ call.handle = NoHandle)
         => call.outcome = False /\ ~call.requested

\* C11 witness: the call returned false for a response of status FAILED
\* that carries an accepted submission made at this instant.
C11_Witness ==
    /\ call.caller = "direct"
    /\ call.handle # NoHandle
    /\ call.resp.kind = "object"
    /\ call.resp.status = "FAILED"
    /\ call.resp.result_is_list
    /\ Len(call.resp.result) >= 1
    /\ call.resp.result[1] = Sub("object", "OK", now)
    /\ call.outcome = False

\* The record stored for uid, NoRecord when there is none.
NoRecord == "<no record>"

RecordOf(db, uid) == IF uid \in Keys(db) THEN Get(db, uid) ELSE NoRecord

\* C12: a set-timezone command with no argument or with a name that is no
\* IANA zone is answered with the usage or the error text and changes
\* nothing: the store (so the zone stored for the user, and the absence of
\* a record) and the file are as before.
C12_BadSetTzChangesNothing ==
    [][\A uid \in Users, arg \in {BadTzName, NoArgs} :
         SetTz(uid, arg) =>
            /\ cmd'.reply \in {"usage", "bad_tz"}
            /\ DB' = DB
            /\ file' = file
            /\ RecordOf(DB', uid) = RecordOf(DB, uid)]_vars

\* C12 witness: the name "Mars/Phobos" was rejected for a user whose
\* stored zone is not the default one, and the other user has no record.
C12_Witness ==
    /\ cmd.name = "settz"
    /\ cmd.arg = BadTzName
    /\ cmd.reply = "bad_tz"
    /\ cmd.uid \in Keys(DB)
    /\ Get(DB, cmd.uid).timezone # DEFAULT_TZ
    /\ Len(DB) = 1

\* C13: for the store of every reachable state, save_db followed by
\* load_db gives back, for every user, the same handle, timezone and
\* last_notified.
C13_SaveLoadRoundTrip ==
    LET back == load_db(save_db(DB)) IN
    /\ Len(back) = Len(DB)
    /\ \A i \in 1..Len(DB) :
          /\ back[i].uid = DB[i].uid
          /\ back[i].rec.handle = DB[i].rec.handle
          /\ back[i].rec.timezone = DB[i].rec.timezone
          /\ back[i].rec.last_notified = DB[i].rec.last_notified

\* C14: in every state (each is a suspension point of a sweep or lies
\* between two operations) the file holds exactly the records of DB, in
\* DB's order, with their handle, timezone and marks; while no file has
\* been written DB is empty.
C14_SnapshotEqualsMemory ==
    IF ~file.exists THEN DB = <<>>
    ELSE /\ Len(file.raw) = Len(DB)
         /\ \A i \in 1..Len(DB) :
               /\ file.raw[i].uid = DB[i].uid
               /\ file.raw[i].obj.handle = DB[i].rec.handle
               /\ file.raw[i].obj.timezone = DB[i].rec.timezone
               /\ \A slot \in Slots :
                     file.raw[i].obj.last_notified[slot]
                       = IF DB[i].rec.last_notified.none THEN NoDate
                         ELSE DB[i].rec.last_notified.d[slot]

\* C14 witness: a sweep that has marked its first user is suspended in
\* the feed request for the second one.
C14_Witness ==
    /\ sweep.pc = "fetch"
    /\ sweep.idx = 2
    /\ <<DB[1].uid, sweep.slot>> \in everMarked
    /\ ~DB[1].rec.last_notified.none
    /\ DB[1].rec.last_notified.d[sweep.slot] # NoDate

\* C15: mark_notified does not write last_notified[s] of a user for whom
\* a sweep wrote it already at this very instant (so on the same day of
\* the user's calendar), whether that sweep delivered a reminder or found
\* the user solved.
C15_OneWritePerDay ==
    [][\A u \in Users, s \in Slots :
         Marks(u, s) =>
            ~(/\ hist[u].last \in {"sent", "solved"}
              /\ hist[u].slot = s)]_vars

\* C16: the date mark_notified writes to last_notified[s] is today's date
\* in DEFAULT_TZ, the zone the slot triggers fire in, whatever the zone of
\* the user and the zone of the machine's clock.
C16_MarkInScheduleZone ==
    [][\A u \in Users, s \in Slots :
         Marks(u, s) =>
            Get(DB', u).last_notified.d[s]
              = isoformat(LocalDate(now, DEFAULT_TZ))]_vars

\* C17: when the sweep comes back from a feed request or a delivery and
\* goes on with its loop, whatever commands were handled meanwhile, the
\* iteration does not raise and the sweep goes on to the first remaining
\* user that is not passed over.
C17_SweepSurvivesCommands ==
    [][(Delivers \/ DeliveryRaises \/ FindsSolved) =>
         /\ ~iterator_raises(DB', sweep.size)
         /\ \A j \in (sweep.idx + 1)..sweep.size :
            (/\ ~skip_user(DB', j, sweep.slot, now)
             /\ \A k \in (sweep.idx + 1)..(j - 1) :
                   skip_user(DB', k, sweep.slot, now))
               => sweep'.pc = "fetch" /\ sweep'.idx = j]_vars

\* C18: a save_db that fails inside mark_notified ends the sweep, after a
\* delivery as well as for a user found solved: the sweep does not go on
\* to a further user with a mark in memory that the file lacks.
C18_SaveFailureEndsSweep ==
    [][(\/ DeliverOkSaveFails
        \/ \E resp \in SweepResponsesAt(now) : FetchDoneSaveFails(resp))
         => sweep'.pc = "idle"]_vars

\* C19: under every setting of the default zone, a helper that is given
\* a zone name does not raise while resolving it and uses the named zone
\* when the name is recognised and the default zone otherwise; and every
\* zone name stored in a record is a recognised one.
C19_ResolutionNeverFails ==
    call.caller \in {"already_notified_today", "cf_has_solved_today"} =>
        /\ call.result \in all_timezones
        /\ call.result = IF call.tz \in all_timezones THEN call.tz ELSE call.local_tz
        /\ \A i \in 1..Len(DB) : DB[i].rec.timezone \in all_timezones

\* last_notified[s] of user u in db, NoDate when the user has no record,
\* no mapping or no entry for s.
Entry(db, u, s) ==
    IF u \notin Keys(db) THEN NoDate
    ELSE IF Get(db, u).last_notified.none THEN NoDate
    ELSE Get(db, u).last_notified.d[s]

\* C20: no step removes a record or clears a handle; /streak and /whoami
\* leave the store and the file as they are; /sethandle changes the
\* handle of the sender only and /settz their timezone only; an entry of
\* last_notified changes only when mark_notified runs for that user and
\* that slot, and the slot is one of REMINDER_TIMES.
C20_FrameAndLifecycle ==
    [][/\ \A u \in Keys(DB) :
            /\ u \in Keys(DB')
            /\ Get(DB, u).handle # NoHandle => Get(DB', u).handle # NoHandle
       /\ \A uid \in Users :
            (Streak(uid) \/ WhoAmI(uid)) => DB' = DB /\ file' = file
       /\ \A uid \in Users, arg \in Handles \cup {NoArgs} :
            SetHandle(uid, arg) =>
               \A u \in Keys(DB) :
                  /\ Get(DB', u).timezone = Get(DB, u).timezone
                  /\ Get(DB', u).last_notified = Get(DB, u).last_notified
                  /\ u # uid => Get(DB', u) = Get(DB, u)
       /\ \A uid \in Users, arg \in all_timezones \cup {BadTzName, NoArgs} :
            SetTz(uid, arg) =>
               \A u \in Keys(DB) :
                  /\ Get(DB', u).handle = Get(DB, u).handle
                  /\ Get(DB', u).last_notified = Get(DB, u).last_notified
                  /\ u # uid => Get(DB', u) = Get(DB, u)
       /\ \A u \in Users, s \in Slots :
            Entry(DB', u, s) # Entry(DB, u, s) => Marks(u, s)
       /\ \A u \in Users :
            (Delivers \/ FindsSolved) /\ SweepUser = u => sweep.slot \in Slots]_vars

\* C20 witness: /whoami or /streak of a user without a record was
\* answered after another user was marked, and the sender still has no
\* record.
C20_Witness ==
    /\ cmd.name \in {"whoami", "streak"}
    /\ cmd.uid \notin Keys(DB)
    /\ everMarked # {}
    /\ Len(DB) = 1
    /\ DB[1].rec.handle # NoHandle

====
